---- MODULE Spec2Model ----
(***************************************************************************)
(* PlaneCapabilities (ips/anniedale/PlaneCapabilities.cpp): the five       *)
(* stateless capability predicates of the hardware composer.               *)
(*                                                                         *)
(* Each behaviour is one call: Init draws the callee and its arguments     *)
(* from bounded sets, the callee's action computes the return value.       *)
(* Enumerators whose numeric value is set in headers outside this file     *)
(* (plane types, pixel formats, blending modes) are modelled by their      *)
(* names; the code only compares them for equality.  Transform values are  *)
(* the integers of the HAL bitmask, because the code tests them against    *)
(* zero.  Fractional source edges are fixed-point numbers in tenths.       *)
(***************************************************************************)
EXTENDS Integers, FiniteSets, Sequences, TLC

VARIABLES pc, fn, planeType, format, trans, w, h, stride,
          blending, planeAlpha, src, dest, result, trapped

vars == <<pc, fn, planeType, format, trans, w, h, stride,
          blending, planeAlpha, src, dest, result, trapped>>

args == <<fn, planeType, format, trans, w, h, stride,
          blending, planeAlpha, src, dest>>

(***************************************************************************)
(* Bounds of the model                                                     *)
(***************************************************************************)
MaxSrcPix == 3
MaxDstPix == 2
MaxStrideDelta == 1
MaxDim == 1
MaxAlpha == 1
MaxTransform == 7

(***************************************************************************)
(* Program constants                                                       *)
(***************************************************************************)
SPRITE_PLANE_MAX_STRIDE_TILED == 16384
SPRITE_PLANE_MAX_STRIDE_LINEAR == 10240
OVERLAY_PLANE_MAX_STRIDE_PACKED == 4096
OVERLAY_PLANE_MAX_STRIDE_LINEAR == 8192

\* "overlay cannot support resolution that bigger than 2047x2047"
INTEL_OVERLAY_MAX_WIDTH == 2048
INTEL_OVERLAY_MAX_HEIGHT == 2048

\* HAL transform bitmask: FLIP_H = 1, FLIP_V = 2, ROT_90 = 4,
\* ROT_180 = FLIP_H | FLIP_V, ROT_270 = ROT_180 | ROT_90; identity is 0.
HAL_TRANSFORM_ROT_90 == 4
HAL_TRANSFORM_ROT_180 == 3
HAL_TRANSFORM_ROT_270 == 7

PLANE_SPRITE == "PLANE_SPRITE"
PLANE_OVERLAY == "PLANE_OVERLAY"
PLANE_PRIMARY == "PLANE_PRIMARY"

PLANE_BLENDING_NONE == "PLANE_BLENDING_NONE"
PLANE_BLENDING_PREMULT == "PLANE_BLENDING_PREMULT"

HAL_PIXEL_FORMAT_BGRA_8888 == "HAL_PIXEL_FORMAT_BGRA_8888"
HAL_PIXEL_FORMAT_BGRX_8888 == "HAL_PIXEL_FORMAT_BGRX_8888"
HAL_PIXEL_FORMAT_RGBA_8888 == "HAL_PIXEL_FORMAT_RGBA_8888"
HAL_PIXEL_FORMAT_RGBX_8888 == "HAL_PIXEL_FORMAT_RGBX_8888"
HAL_PIXEL_FORMAT_RGB_565 == "HAL_PIXEL_FORMAT_RGB_565"
HAL_PIXEL_FORMAT_I420 == "HAL_PIXEL_FORMAT_I420"
HAL_PIXEL_FORMAT_NV12 == "HAL_PIXEL_FORMAT_NV12"
HAL_PIXEL_FORMAT_YUY2 == "HAL_PIXEL_FORMAT_YUY2"
HAL_PIXEL_FORMAT_UYVY == "HAL_PIXEL_FORMAT_UYVY"
HAL_PIXEL_FORMAT_YV12 == "HAL_PIXEL_FORMAT_YV12"
OMX_INTEL_COLOR_FormatYUV420PackedSemiPlanar ==
    "OMX_INTEL_COLOR_FormatYUV420PackedSemiPlanar"
OMX_INTEL_COLOR_FormatYUV420PackedSemiPlanar_Tiled ==
    "OMX_INTEL_COLOR_FormatYUV420PackedSemiPlanar_Tiled"

(***************************************************************************)
(* Argument domains                                                        *)
(***************************************************************************)
\* int planeType: the three plane types the code names and one other int.
PlaneTypes == {PLANE_SPRITE, PLANE_OVERLAY, PLANE_PRIMARY, "PLANE_MAX"}

\* uint32_t format: every case label and two values no switch names.
Formats ==
    {HAL_PIXEL_FORMAT_BGRA_8888, HAL_PIXEL_FORMAT_BGRX_8888,
     HAL_PIXEL_FORMAT_RGBA_8888, HAL_PIXEL_FORMAT_RGBX_8888,
     HAL_PIXEL_FORMAT_RGB_565, HAL_PIXEL_FORMAT_I420, HAL_PIXEL_FORMAT_NV12,
     HAL_PIXEL_FORMAT_YUY2, HAL_PIXEL_FORMAT_UYVY, HAL_PIXEL_FORMAT_YV12,
     OMX_INTEL_COLOR_FormatYUV420PackedSemiPlanar,
     OMX_INTEL_COLOR_FormatYUV420PackedSemiPlanar_Tiled,
     "HAL_PIXEL_FORMAT_RGB_888", "FORMAT_OTHER"}

\* uint32_t trans: identity (0) and every combination of the HAL bits.
Transforms == 0 .. MaxTransform

\* uint32_t blending: the two case labels and two other values.
Blendings == {PLANE_BLENDING_NONE, PLANE_BLENDING_PREMULT,
              "PLANE_BLENDING_COVERAGE", "BLENDING_OTHER"}

\* uint8_t planeAlpha
PlaneAlphas == (0 .. MaxAlpha) \cup {255}

\* uint32_t w, h
Dims == (0 .. MaxDim) \cup {4096}

\* stride values around each threshold of the file
StrideValues ==
    {0} \cup
    {t + d : t \in {SPRITE_PLANE_MAX_STRIDE_LINEAR, SPRITE_PLANE_MAX_STRIDE_TILED,
                    OVERLAY_PLANE_MAX_STRIDE_PACKED, OVERLAY_PLANE_MAX_STRIDE_LINEAR},
             d \in (0 - MaxStrideDelta) .. MaxStrideDelta}

\* stride_t: the rgb and the yuv view of the stride, drawn independently so
\* that which view a branch reads is observable
Strides == [rgb : [stride : {0, SPRITE_PLANE_MAX_STRIDE_LINEAR + 1}],
            yuv : [yStride : {0}]]
           \cup [rgb : [stride : StrideValues], yuv : [yStride : {0, 16384}]]
           \cup [rgb : [stride : {0, 16384}], yuv : [yStride : StrideValues]]

\* hwc_frect_t: float edges, in tenths; all extents stay far inside the
\* range of int, so no cast or subtraction overflows
SrcPix == (0 .. MaxSrcPix) \cup {INTEL_OVERLAY_MAX_WIDTH - 1, INTEL_OVERLAY_MAX_WIDTH}
SrcFar == {p * 10 + f : p \in SrcPix, f \in {0, 4}}
SrcRects == [left : {0 - 5, 5, 10}, top : {0, 5}, right : SrcFar, bottom : SrcFar]

\* hwc_rect_t: int edges
DstRects == [left : {0, 1}, top : {0, 1},
             right : 0 .. MaxDstPix, bottom : 0 .. MaxDstPix]

NoStride == [rgb |-> [stride |-> 0], yuv |-> [yStride |-> 0]]
NoSrc == [left |-> 0, top |-> 0, right |-> 0, bottom |-> 0]
NoDst == [left |-> 0, top |-> 0, right |-> 0, bottom |-> 0]

(***************************************************************************)
(* C arithmetic                                                            *)
(***************************************************************************)
\* (int)f for a float f given in tenths: conversion truncates toward zero.
FloatToInt(f) == IF f >= 0 THEN f \div 10 ELSE 0 - ((0 - f) \div 10)

\* a / b on ints, b # 0: the quotient truncates toward zero.
CDiv(a, b) ==
    LET q == (IF a >= 0 THEN a ELSE 0 - a) \div (IF b >= 0 THEN b ELSE 0 - b)
    IN  IF (a >= 0) = (b >= 0) THEN q ELSE 0 - q

\* A call either returns a value or, on undefined behaviour, may do anything
\* the build can produce: trap (SIGFPE) or return either value.
Returns(b) == {[trap |-> FALSE, ret |-> b]}
Undefined == {[trap |-> TRUE, ret |-> FALSE],
              [trap |-> FALSE, ret |-> FALSE],
              [trap |-> FALSE, ret |-> TRUE]}

(***************************************************************************)
(* isFormatSupported                                                       *)
(***************************************************************************)
isFormatSupportedSprite_IgnoresTrans(fmt, tr) ==
    fmt \in {HAL_PIXEL_FORMAT_BGRA_8888, HAL_PIXEL_FORMAT_BGRX_8888,
             HAL_PIXEL_FORMAT_RGBA_8888, HAL_PIXEL_FORMAT_RGBX_8888,
             HAL_PIXEL_FORMAT_RGB_565}

\* switch (format) of the sprite/primary branch
isFormatSupportedSprite(fmt, tr) ==
    IF fmt \in {HAL_PIXEL_FORMAT_BGRA_8888, HAL_PIXEL_FORMAT_BGRX_8888,
                HAL_PIXEL_FORMAT_RGBA_8888, HAL_PIXEL_FORMAT_RGBX_8888,
                HAL_PIXEL_FORMAT_RGB_565}
    THEN (IF tr # 0 THEN FALSE ELSE TRUE)
    ELSE FALSE

isFormatSupportedOverlay_Rot180(fmt, tr) ==
    IF fmt \in {HAL_PIXEL_FORMAT_I420, HAL_PIXEL_FORMAT_NV12,
                HAL_PIXEL_FORMAT_YUY2, HAL_PIXEL_FORMAT_UYVY}
    THEN (IF tr # 0 /\ tr # HAL_TRANSFORM_ROT_180 THEN FALSE ELSE TRUE)
    ELSE IF fmt \in {HAL_PIXEL_FORMAT_YV12,
                     OMX_INTEL_COLOR_FormatYUV420PackedSemiPlanar,
                     OMX_INTEL_COLOR_FormatYUV420PackedSemiPlanar_Tiled}
    THEN TRUE
    ELSE FALSE

\* switch (format) of the overlay branch; the ROT_180 test only logs
isFormatSupportedOverlay(fmt, tr) ==
    IF fmt \in {HAL_PIXEL_FORMAT_I420, HAL_PIXEL_FORMAT_NV12,
                HAL_PIXEL_FORMAT_YUY2, HAL_PIXEL_FORMAT_UYVY}
    THEN (IF tr # 0 THEN FALSE ELSE TRUE)
    ELSE IF fmt \in {HAL_PIXEL_FORMAT_YV12,
                     OMX_INTEL_COLOR_FormatYUV420PackedSemiPlanar,
                     OMX_INTEL_COLOR_FormatYUV420PackedSemiPlanar_Tiled}
    THEN TRUE
    ELSE FALSE

isFormatSupported(pt, fmt, tr) ==
    IF pt = PLANE_SPRITE \/ pt = PLANE_PRIMARY
    THEN isFormatSupportedSprite(fmt, tr)
    ELSE IF pt = PLANE_OVERLAY
    THEN isFormatSupportedOverlay(fmt, tr)
    ELSE FALSE

(***************************************************************************)
(* isSizeSupported                                                         *)
(***************************************************************************)
isSizeSupportedSprite_Tiled(fmt, st) ==
    IF fmt \in {HAL_PIXEL_FORMAT_BGRA_8888, HAL_PIXEL_FORMAT_BGRX_8888,
                HAL_PIXEL_FORMAT_RGBA_8888, HAL_PIXEL_FORMAT_RGBX_8888,
                HAL_PIXEL_FORMAT_RGB_565}
    THEN (IF st.rgb.stride > SPRITE_PLANE_MAX_STRIDE_TILED THEN FALSE ELSE TRUE)
    ELSE FALSE

isSizeSupportedSprite(fmt, st) ==
    IF fmt \in {HAL_PIXEL_FORMAT_BGRA_8888, HAL_PIXEL_FORMAT_BGRX_8888,
                HAL_PIXEL_FORMAT_RGBA_8888, HAL_PIXEL_FORMAT_RGBX_8888,
                HAL_PIXEL_FORMAT_RGB_565}
    THEN (IF st.rgb.stride > SPRITE_PLANE_MAX_STRIDE_LINEAR THEN FALSE ELSE TRUE)
    ELSE FALSE

isSizeSupportedOverlay(fmt, st) ==
    IF fmt \in {HAL_PIXEL_FORMAT_YV12, HAL_PIXEL_FORMAT_I420, HAL_PIXEL_FORMAT_NV12,
                OMX_INTEL_COLOR_FormatYUV420PackedSemiPlanar,
                OMX_INTEL_COLOR_FormatYUV420PackedSemiPlanar_Tiled}
       \/ fmt \in {HAL_PIXEL_FORMAT_YUY2, HAL_PIXEL_FORMAT_UYVY}
    THEN LET isYUVPacked == fmt \in {HAL_PIXEL_FORMAT_YUY2, HAL_PIXEL_FORMAT_UYVY}
             maxStride == IF isYUVPacked THEN OVERLAY_PLANE_MAX_STRIDE_PACKED
                                         ELSE OVERLAY_PLANE_MAX_STRIDE_LINEAR
         IN  IF st.yuv.yStride > maxStride THEN FALSE ELSE TRUE
    ELSE FALSE

\* width and height are parameters the body never reads
isSizeSupported(pt, fmt, width, height, st) ==
    IF pt = PLANE_SPRITE \/ pt = PLANE_PRIMARY
    THEN isSizeSupportedSprite(fmt, st)
    ELSE IF pt = PLANE_OVERLAY
    THEN isSizeSupportedOverlay(fmt, st)
    ELSE FALSE

(***************************************************************************)
(* isBlendingSupported                                                     *)
(***************************************************************************)
isBlendingSupported_OverlayPremult(pt, bl, alpha) ==
    IF pt = PLANE_SPRITE \/ pt = PLANE_PRIMARY \/ pt = PLANE_OVERLAY
    THEN bl \in {PLANE_BLENDING_NONE, PLANE_BLENDING_PREMULT}
    ELSE FALSE

\* planeAlpha is a parameter the body never reads
isBlendingSupported(pt, bl, alpha) ==
    IF pt = PLANE_SPRITE \/ pt = PLANE_PRIMARY
    THEN (IF bl \in {PLANE_BLENDING_NONE, PLANE_BLENDING_PREMULT}
          THEN TRUE ELSE FALSE)
    ELSE IF pt = PLANE_OVERLAY
    THEN (IF bl = PLANE_BLENDING_NONE THEN TRUE ELSE FALSE)
    ELSE FALSE

(***************************************************************************)
(* isScalingSupported                                                      *)
(***************************************************************************)
SrcExtent_TruncDifference(far, near) == FloatToInt(far - near)

\* srcW = (int)src.right - (int)src.left; srcH likewise
SrcExtent(far, near) == FloatToInt(far) - FloatToInt(near)

\* dstW = dest.right - dest.left; dstH likewise
DstExtent(far, near) == far - near

isScalingSupportedSprite_WidthOnly(srcW, srcH, dstW, dstH) ==
    srcW = dstW

isScalingSupportedSprite(srcW, srcH, dstW, dstH) ==
    IF (srcW = dstW) /\ (srcH = dstH) THEN TRUE ELSE FALSE

isScalingSupportedOverlay_NoSwap(srcW, srcH, dstW, dstH, tr) ==
    IF (srcW > INTEL_OVERLAY_MAX_WIDTH - 1) \/ (srcH > INTEL_OVERLAY_MAX_HEIGHT - 1)
    THEN Returns(FALSE)
    ELSE IF dstW = 0 \/ dstH = 0
         THEN Undefined
         ELSE LET scaleX == CDiv(srcW, dstW)
                  scaleY == CDiv(srcH, dstH)
              IN  IF tr # 0 /\ (scaleX >= 3 \/ scaleY >= 3)
                  THEN Returns(FALSE)
                  ELSE Returns(TRUE)

\* the overlay branch; srcW / dstW with dstW = 0 (or srcH / dstH with
\* dstH = 0) is undefined behaviour
isScalingSupportedOverlay(srcW, srcH, dstW, dstH, tr) ==
    IF (srcW > INTEL_OVERLAY_MAX_WIDTH - 1) \/ (srcH > INTEL_OVERLAY_MAX_HEIGHT - 1)
    THEN Returns(FALSE)
    ELSE LET swap == tr = HAL_TRANSFORM_ROT_90 \/ tr = HAL_TRANSFORM_ROT_270
             sw == IF swap THEN srcH ELSE srcW
             sh == IF swap THEN srcW ELSE srcH
         IN  IF dstW = 0 \/ dstH = 0
             THEN Undefined
             ELSE LET scaleX == CDiv(sw, dstW)
                      scaleY == CDiv(sh, dstH)
                  IN  IF tr # 0 /\ (scaleX >= 3 \/ scaleY >= 3)
                      THEN Returns(FALSE)
                      ELSE Returns(TRUE)

\* the set of outcomes of a call
isScalingSupported(pt, s, d, tr) ==
    LET srcW == SrcExtent(s.right, s.left)
        srcH == SrcExtent(s.bottom, s.top)
        dstW == DstExtent(d.right, d.left)
        dstH == DstExtent(d.bottom, d.top)
    IN  IF pt = PLANE_SPRITE \/ pt = PLANE_PRIMARY
        THEN Returns(isScalingSupportedSprite(srcW, srcH, dstW, dstH))
        ELSE IF pt = PLANE_OVERLAY
        THEN isScalingSupportedOverlay(srcW, srcH, dstW, dstH, tr)
        ELSE Returns(FALSE)

(***************************************************************************)
(* isTransformSupported                                                    *)
(***************************************************************************)
isTransformSupported_SpriteAny(pt, tr) ==
    IF pt = PLANE_OVERLAY \/ pt = PLANE_SPRITE THEN TRUE
    ELSE (IF tr # 0 THEN FALSE ELSE TRUE)

isTransformSupported(pt, tr) ==
    IF pt = PLANE_OVERLAY THEN TRUE
    ELSE (IF tr # 0 THEN FALSE ELSE TRUE)

(***************************************************************************)
(* The calls                                                               *)
(***************************************************************************)
Call(f, pt, fmt, tr, width, height, st, bl, alpha, s, d) ==
    /\ pc = "ready"
    /\ fn = f
    /\ planeType = pt
    /\ format = fmt
    /\ trans = tr
    /\ w = width
    /\ h = height
    /\ stride = st
    /\ blending = bl
    /\ planeAlpha = alpha
    /\ src = s
    /\ dest = d
    /\ result = FALSE
    /\ trapped = FALSE

Init ==
    \/ \E pt \in PlaneTypes, fmt \in Formats, tr \in Transforms :
          Call("isFormatSupported", pt, fmt, tr, 0, 0, NoStride,
               PLANE_BLENDING_NONE, 0, NoSrc, NoDst)
    \/ \E pt \in PlaneTypes, fmt \in Formats, width \in Dims, height \in Dims,
          st \in Strides :
          Call("isSizeSupported", pt, fmt, 0, width, height, st,
               PLANE_BLENDING_NONE, 0, NoSrc, NoDst)
    \/ \E pt \in PlaneTypes, bl \in Blendings, alpha \in PlaneAlphas :
          Call("isBlendingSupported", pt, HAL_PIXEL_FORMAT_BGRA_8888, 0, 0, 0,
               NoStride, bl, alpha, NoSrc, NoDst)
    \/ \E pt \in PlaneTypes, s \in SrcRects, d \in DstRects, tr \in Transforms :
          Call("isScalingSupported", pt, HAL_PIXEL_FORMAT_BGRA_8888, tr, 0, 0,
               NoStride, PLANE_BLENDING_NONE, 0, s, d)
    \/ \E pt \in PlaneTypes, tr \in Transforms :
          Call("isTransformSupported", pt, HAL_PIXEL_FORMAT_BGRA_8888, tr, 0, 0,
               NoStride, PLANE_BLENDING_NONE, 0, NoSrc, NoDst)

Return(b) ==
    /\ result' = b
    /\ trapped' = FALSE
    /\ pc' = "done"
    /\ UNCHANGED args

CallIsFormatSupported ==
    /\ pc = "ready"
    /\ fn = "isFormatSupported"
    /\ Return(isFormatSupported(planeType, format, trans))

CallIsSizeSupported ==
    /\ pc = "ready"
    /\ fn = "isSizeSupported"
    /\ Return(isSizeSupported(planeType, format, w, h, stride))

CallIsBlendingSupported ==
    /\ pc = "ready"
    /\ fn = "isBlendingSupported"
    /\ Return(isBlendingSupported(planeType, blending, planeAlpha))

CallIsScalingSupported ==
    /\ pc = "ready"
    /\ fn = "isScalingSupported"
    /\ \E o \in isScalingSupported(planeType, src, dest, trans) :
          /\ result' = o.ret
          /\ trapped' = o.trap
    /\ pc' = "done"
    /\ UNCHANGED args

CallIsTransformSupported ==
    /\ pc = "ready"
    /\ fn = "isTransformSupported"
    /\ Return(isTransformSupported(planeType, trans))

Next ==
    \/ CallIsFormatSupported
    \/ CallIsSizeSupported
    \/ CallIsBlendingSupported
    \/ CallIsScalingSupported
    \/ CallIsTransformSupported

Spec == Init /\ [][Next]_vars

TypeOK ==
    /\ pc \in {"ready", "done"}
    /\ planeType \in PlaneTypes
    /\ format \in Formats
    /\ trans \in Transforms
    /\ result \in BOOLEAN
    /\ trapped \in BOOLEAN

(***************************************************************************)
(* Vocabulary of the properties                                            *)
(***************************************************************************)
Done(f) == pc = "done" /\ fn = f
Returned(b) == ~trapped /\ result = b

RGBPlanes == {PLANE_PRIMARY, PLANE_SPRITE}
KnownPlanes == {PLANE_PRIMARY, PLANE_SPRITE, PLANE_OVERLAY}

RGBFamily == {HAL_PIXEL_FORMAT_BGRA_8888, HAL_PIXEL_FORMAT_BGRX_8888,
              HAL_PIXEL_FORMAT_RGBA_8888, HAL_PIXEL_FORMAT_RGBX_8888,
              HAL_PIXEL_FORMAT_RGB_565}
YUVNoRotation == {HAL_PIXEL_FORMAT_I420, HAL_PIXEL_FORMAT_NV12,
                  HAL_PIXEL_FORMAT_YUY2, HAL_PIXEL_FORMAT_UYVY}
YUVAnyTransform == {HAL_PIXEL_FORMAT_YV12,
                    OMX_INTEL_COLOR_FormatYUV420PackedSemiPlanar,
                    OMX_INTEL_COLOR_FormatYUV420PackedSemiPlanar_Tiled}
YUVPacked == {HAL_PIXEL_FORMAT_YUY2, HAL_PIXEL_FORMAT_UYVY}
YUVPlanar == {HAL_PIXEL_FORMAT_I420, HAL_PIXEL_FORMAT_NV12, HAL_PIXEL_FORMAT_YV12,
              OMX_INTEL_COLOR_FormatYUV420PackedSemiPlanar,
              OMX_INTEL_COLOR_FormatYUV420PackedSemiPlanar_Tiled}
YUVFamily == YUVPacked \cup YUVPlanar

\* extents of the current call's rectangles, edges truncated one by one
ArgSrcW == FloatToInt(src.right) - FloatToInt(src.left)
ArgSrcH == FloatToInt(src.bottom) - FloatToInt(src.top)
ArgDstW == dest.right - dest.left
ArgDstH == dest.bottom - dest.top

(***************************************************************************)
(* Properties                                                              *)
(***************************************************************************)

\* C1: every one of the five predicates returns false when the plane class
\* is none of Primary, Sprite, Overlay, whatever the other arguments are.
C1_InvalidPlaneIsFalse ==
    (pc = "done" /\ planeType \notin KnownPlanes) => Returned(FALSE)

\* C2: isScalingSupported on an Overlay plane never divides by zero and
\* returns false whenever the destination width or height is zero or
\* negative, for every source rectangle and transform.
C2_OverlayBadDestIsFalse ==
    (Done("isScalingSupported") /\ planeType = PLANE_OVERLAY
        /\ (ArgDstW <= 0 \/ ArgDstH <= 0))
    => Returned(FALSE)

\* C3: on Primary or Sprite, isFormatSupported is true exactly when the
\* format is one of the five RGB formats and the transform is identity.
C3_SpriteFormat ==
    (Done("isFormatSupported") /\ planeType \in RGBPlanes)
    => Returned(format \in RGBFamily /\ trans = 0)

C3_Witness ==
    /\ Done("isFormatSupported")
    /\ planeType = PLANE_PRIMARY
    /\ format = HAL_PIXEL_FORMAT_BGRX_8888
    /\ trans = 0
    /\ result = TRUE

\* C4: on Overlay, isFormatSupported is true for I420, NV12, YUY2, UYVY
\* exactly when the transform is identity; true for YV12 and the two OMX
\* semiplanar formats under every transform; false for every other format.
C4_OverlayFormat ==
    (Done("isFormatSupported") /\ planeType = PLANE_OVERLAY)
    => Returned(\/ format \in YUVNoRotation /\ trans = 0
                \/ format \in YUVAnyTransform)

C4_Witness ==
    /\ Done("isFormatSupported")
    /\ planeType = PLANE_OVERLAY
    /\ format = HAL_PIXEL_FORMAT_NV12
    /\ trans = HAL_TRANSFORM_ROT_180
    /\ result = FALSE

\* C5: isSizeSupported is decided by plane class, format and stride alone:
\* Primary/Sprite with an RGB format iff rgb stride <= 10240; Overlay with
\* YUY2/UYVY iff luma stride <= 4096; Overlay with I420, NV12, YV12 or an
\* OMX semiplanar format iff luma stride <= 8192; YUV on Primary/Sprite and
\* RGB on Overlay are false.  Width and height never matter.
C5_SizeByStride ==
    (Done("isSizeSupported") /\ planeType \in KnownPlanes
        /\ format \in RGBFamily \cup YUVFamily)
    => Returned(\/ /\ planeType \in RGBPlanes
                   /\ format \in RGBFamily
                   /\ stride.rgb.stride <= 10240
                \/ /\ planeType = PLANE_OVERLAY
                   /\ format \in YUVPacked
                   /\ stride.yuv.yStride <= 4096
                \/ /\ planeType = PLANE_OVERLAY
                   /\ format \in YUVPlanar
                   /\ stride.yuv.yStride <= 8192)

C5_Witness ==
    /\ Done("isSizeSupported")
    /\ planeType = PLANE_SPRITE
    /\ format = HAL_PIXEL_FORMAT_BGRA_8888
    /\ stride.rgb.stride = 10241
    /\ w = 0
    /\ h = 0
    /\ result = FALSE

\* C6: isBlendingSupported ignores planeAlpha; on Primary/Sprite it is true
\* iff the mode is None or Premultiplied, on Overlay iff the mode is None.
C6_Blending ==
    (Done("isBlendingSupported") /\ planeType \in KnownPlanes)
    => Returned(\/ /\ planeType \in RGBPlanes
                   /\ blending \in {PLANE_BLENDING_NONE, PLANE_BLENDING_PREMULT}
                \/ /\ planeType = PLANE_OVERLAY
                   /\ blending = PLANE_BLENDING_NONE)

C6_Witness ==
    /\ Done("isBlendingSupported")
    /\ planeType = PLANE_OVERLAY
    /\ blending = PLANE_BLENDING_PREMULT
    /\ planeAlpha = 255
    /\ result = FALSE

\* C7: on Primary or Sprite, isScalingSupported is true iff srcW = dstW and
\* srcH = dstH, under every transform.
C7_SpriteNoScaling ==
    (Done("isScalingSupported") /\ planeType \in RGBPlanes)
    => Returned(ArgSrcW = ArgDstW /\ ArgSrcH = ArgDstH)

C7_Witness ==
    /\ Done("isScalingSupported")
    /\ planeType = PLANE_SPRITE
    /\ trans = HAL_TRANSFORM_ROT_90
    /\ src = [left |-> 10, top |-> 0, right |-> 30, bottom |-> 10]
    /\ dest = [left |-> 0, top |-> 1, right |-> 2, bottom |-> 2]
    /\ result = TRUE

\* C8: on Overlay with dstW > 0 and dstH > 0, isScalingSupported is true
\* iff the un-rotated source extents are at most 2047 and it is not the
\* case that the transform is non-identity with scaleX >= 3 or scaleY >= 3,
\* the ratios taken after swapping the source extents for rotate-90 and
\* rotate-270 only.
C8_OverlayScaling ==
    (Done("isScalingSupported") /\ planeType = PLANE_OVERLAY
        /\ ArgDstW > 0 /\ ArgDstH > 0)
    => LET rotated == trans \in {HAL_TRANSFORM_ROT_90, HAL_TRANSFORM_ROT_270}
           sw == IF rotated THEN ArgSrcH ELSE ArgSrcW
           sh == IF rotated THEN ArgSrcW ELSE ArgSrcH
           scaleX == CDiv(sw, ArgDstW)
           scaleY == CDiv(sh, ArgDstH)
       IN  Returned(/\ ArgSrcW <= INTEL_OVERLAY_MAX_WIDTH - 1
                    /\ ArgSrcH <= INTEL_OVERLAY_MAX_HEIGHT - 1
                    /\ ~(trans # 0 /\ (scaleX >= 3 \/ scaleY >= 3)))

\* rotate-90 of a 3x2 source onto a 1x2 destination: ratios 2 and 1 after
\* the swap (3 and 1 without it)
C8_Witness ==
    /\ Done("isScalingSupported")
    /\ planeType = PLANE_OVERLAY
    /\ trans = HAL_TRANSFORM_ROT_90
    /\ ArgSrcW = 3
    /\ ArgSrcH = 2
    /\ ArgDstW = 1
    /\ ArgDstH = 2
    /\ result = TRUE

\* C9: isTransformSupported is true for every transform on Overlay and, for
\* every other plane class, true iff the transform is identity.
C9_Transform ==
    Done("isTransformSupported")
    => Returned(planeType = PLANE_OVERLAY \/ trans = 0)

C9_Witness ==
    /\ Done("isTransformSupported")
    /\ planeType = PLANE_SPRITE
    /\ trans = HAL_TRANSFORM_ROT_180
    /\ result = FALSE

\* C10: the source extents are the differences of the separately truncated
\* edges, so on Primary/Sprite a source whose truncated edges give the
\* destination's width and height is supported even when its fractional
\* width or height differs from the destination's.
C10_TruncatedEdges ==
    (Done("isScalingSupported") /\ planeType \in RGBPlanes
        /\ FloatToInt(src.right) - FloatToInt(src.left) = ArgDstW
        /\ FloatToInt(src.bottom) - FloatToInt(src.top) = ArgDstH
        /\ (src.right - src.left # 10 * ArgDstW
            \/ src.bottom - src.top # 10 * ArgDstH))
    => Returned(TRUE)

\* left = 0.5, right = 2.4 against dstW = 2: fractional width 1.9
C10_Witness ==
    /\ Done("isScalingSupported")
    /\ planeType = PLANE_PRIMARY
    /\ src.left = 5
    /\ src.right = 24
    /\ ArgDstW = 2
    /\ FloatToInt(src.right - src.left) # ArgDstW
    /\ result = TRUE

====
